---- MODULE Spec2Model ----
(***************************************************************************)
(* Late fusion of the voice, DATScan and spiral analyses                   *)
(* (backend/services/multimodal_service.py): _perform_late_fusion as an    *)
(* operator, its calls as SpecFusion, and analyze_multimodal as Spec.      *)
(*                                                                         *)
(* Python's float is IEEE-754 binary64.  The fusion arithmetic is modelled *)
(* bit for bit: a float is a 53-bit significand and a binary exponent, and *)
(* every +, -, * and / rounds to nearest, ties to even.  TLC's integers    *)
(* are 32 bits wide, so significands are held as little-endian sequences   *)
(* of 14-bit limbs.                                                        *)
(***************************************************************************)
EXTENDS Integers, Sequences, FiniteSets, TLC

(***************************************************************************)
(* Natural numbers of any size: <<l1, ..., ln>> is l1 + l2*Base + ...,     *)
(* with ln # 0; zero is << >>.                                             *)
(***************************************************************************)
LimbBits == 7 + 7
Base == 128 * 128

RECURSIVE Pow2(_)
Pow2(n) == IF n = 0 THEN 1 ELSE 2 * Pow2(n - 1)

RECURSIVE BTrim(_)
BTrim(a) ==
    IF a = << >> THEN a
    ELSE IF a[Len(a)] = 0 THEN BTrim(SubSeq(a, 1, Len(a) - 1))
    ELSE a

RECURSIVE BFromInt(_)
BFromInt(n) == IF n = 0 THEN << >> ELSE <<n % Base>> \o BFromInt(n \div Base)

Limb(a, i) == IF i >= 1 /\ i <= Len(a) THEN a[i] ELSE 0

MaxOf(x, y) == IF x >= y THEN x ELSE y
MinOf(x, y) == IF x <= y THEN x ELSE y

RECURSIVE BAddFrom(_, _, _, _)
BAddFrom(a, b, i, carry) ==
    IF i > Len(a) /\ i > Len(b)
    THEN (IF carry = 0 THEN << >> ELSE <<carry>>)
    ELSE LET s == Limb(a, i) + Limb(b, i) + carry
         IN  <<s % Base>> \o BAddFrom(a, b, i + 1, s \div Base)

BAdd(a, b) == BAddFrom(a, b, 1, 0)

\* a - b for a >= b
RECURSIVE BSubFrom(_, _, _, _)
BSubFrom(a, b, i, borrow) ==
    IF i > Len(a) THEN << >>
    ELSE LET d == Limb(a, i) - Limb(b, i) - borrow
         IN  IF d < 0 THEN <<d + Base>> \o BSubFrom(a, b, i + 1, 1)
             ELSE <<d>> \o BSubFrom(a, b, i + 1, 0)

BSub(a, b) == BTrim(BSubFrom(a, b, 1, 0))

\* -1, 0, 1 as a < b, a = b, a > b
RECURSIVE BCmpFrom(_, _, _)
BCmpFrom(a, b, i) ==
    IF i = 0 THEN 0
    ELSE IF a[i] < b[i] THEN -1
    ELSE IF a[i] > b[i] THEN 1
    ELSE BCmpFrom(a, b, i - 1)

BCmp(a, b) ==
    IF Len(a) < Len(b) THEN -1
    ELSE IF Len(a) > Len(b) THEN 1
    ELSE BCmpFrom(a, b, Len(a))

\* a * k for 0 <= k < Base
RECURSIVE BMulSmallFrom(_, _, _, _)
BMulSmallFrom(a, k, i, carry) ==
    IF i > Len(a)
    THEN (IF carry = 0 THEN << >> ELSE <<carry>>)
    ELSE LET s == a[i] * k + carry
         IN  <<s % Base>> \o BMulSmallFrom(a, k, i + 1, s \div Base)

BMulSmall(a, k) == IF k = 0 THEN << >> ELSE BMulSmallFrom(a, k, 1, 0)

\* a * Base^n
BShlLimbs(a, n) == IF a = << >> THEN a ELSE [i \in 1..n |-> 0] \o a

RECURSIVE BMulFrom(_, _, _)
BMulFrom(a, b, j) ==
    IF j > Len(b) THEN << >>
    ELSE BAdd(BShlLimbs(BMulSmall(a, b[j]), j - 1), BMulFrom(a, b, j + 1))

BMul(a, b) == BMulFrom(a, b, 1)

\* a * 2^n
BShl(a, n) == BShlLimbs(BMulSmall(a, Pow2(n % LimbBits)), n \div LimbBits)

\* floor(a / 2^n)
BShr(a, n) ==
    LET q == n \div LimbBits
        s == n % LimbBits
        lo == Pow2(s)
        hi == Pow2(LimbBits - s)
    IN  IF q >= Len(a) THEN << >>
        ELSE BTrim([i \in 1..(Len(a) - q) |->
                       (a[i + q] \div lo) + (Limb(a, i + q + 1) % lo) * hi])

RECURSIVE IntBitLen(_)
IntBitLen(n) == IF n = 0 THEN 0 ELSE 1 + IntBitLen(n \div 2)

BitLen(a) == IF a = << >> THEN 0 ELSE (Len(a) - 1) * LimbBits + IntBitLen(a[Len(a)])

\* bit n of a (bit 0 is the lowest)
BBit(a, n) == (Limb(a, n \div LimbBits + 1) \div Pow2(n % LimbBits)) % 2

\* some bit of a below bit n is set
BAnyBelow(a, n) ==
    \/ \E i \in 1..MinOf(n \div LimbBits, Len(a)) : a[i] # 0
    \/ Limb(a, n \div LimbBits + 1) % Pow2(n % LimbBits) # 0

BOdd(a) == Limb(a, 1) % 2 = 1

\* the value of a bignum below 2^30
BToInt(a) == Limb(a, 1) + Limb(a, 2) * Base + Limb(a, 3) * Base * Base

(***************************************************************************)
(* floor(n * 2^k / d) and whether the division left a remainder, for       *)
(* n < d and d of exactly DivBits bits; k is a multiple of LimbBits.  One  *)
(* limb of the quotient per step: an estimate from the leading bits that   *)
(* never exceeds the digit, then corrected upwards.                        *)
(***************************************************************************)
DivBits == 53 + 1

RECURSIVE DivFix(_, _, _)
DivFix(r, d, q) == IF BCmp(r, d) >= 0 THEN DivFix(BSub(r, d), d, q + 1) ELSE <<q, r>>

DivDigit(r, d) ==
    LET dtop == BToInt(BShr(d, DivBits - 16))
        rtop == BToInt(BShr(r, DivBits - 16 - LimbBits))
        est  == rtop \div (dtop + 1)
        rest == BSub(BShlLimbs(r, 1), BMulSmall(d, est))
    IN  DivFix(rest, d, est)

RECURSIVE DivLimbs(_, _, _, _)
DivLimbs(r, d, n, q) ==
    IF n = 0 THEN <<BTrim(q), r # << >> >>
    ELSE LET dr == DivDigit(r, d)
         IN  DivLimbs(dr[2], d, n - 1, <<dr[1]>> \o q)

(***************************************************************************)
(* binary64 values >= 0: [m, e] is m * 2^e with 2^52 <= m < 2^53; zero is  *)
(* [m |-> << >>, e |-> 0].  The representation is unique, so = on records  *)
(* is == on floats.  Exponents stay far from the subnormal and overflow    *)
(* ranges for the values handled here.                                     *)
(***************************************************************************)
Precision == 53

FZero == [m |-> << >>, e |-> 0]

\* n * 2^e (plus, with sticky, a non-zero amount below the last bit of n),
\* rounded to nearest, ties to even
FRound(n, e, sticky) ==
    LET len == BitLen(n)
    IN  IF len = 0 THEN FZero
        ELSE IF len <= Precision
        THEN [m |-> BShl(n, Precision - len), e |-> e - (Precision - len)]
        ELSE LET s    == len - Precision
                 q    == BShr(n, s)
                 up   == /\ BBit(n, s - 1) = 1
                         /\ (BAnyBelow(n, s - 1) \/ sticky \/ BOdd(q))
                 q1   == IF up THEN BAdd(q, <<1>>) ELSE q
             IN  IF BitLen(q1) > Precision
                 THEN [m |-> BShr(q1, 1), e |-> e + s + 1]
                 ELSE [m |-> q1, e |-> e + s]

FInt(n) == FRound(BFromInt(n), 0, FALSE)

FMul(a, b) ==
    IF a = FZero \/ b = FZero THEN FZero
    ELSE FRound(BMul(a.m, b.m), a.e + b.e, FALSE)

FAdd(a, b) ==
    IF a = FZero THEN b
    ELSE IF b = FZero THEN a
    ELSE LET e == MinOf(a.e, b.e)
         IN  FRound(BAdd(BShl(a.m, a.e - e), BShl(b.m, b.e - e)), e, FALSE)

\* -1, 0, 1 as a < b, a = b, a > b
FCmp(a, b) ==
    IF a = FZero THEN (IF b = FZero THEN 0 ELSE -1)
    ELSE IF b = FZero THEN 1
    ELSE IF a.e < b.e THEN -1
    ELSE IF a.e > b.e THEN 1
    ELSE BCmp(a.m, b.m)

FGt(a, b) == FCmp(a, b) = 1
FLe(a, b) == FCmp(a, b) <= 0

\* a - b for a >= b
FSubAbs(a, b) ==
    IF b = FZero THEN a
    ELSE LET e == MinOf(a.e, b.e)
         IN  FRound(BSub(BShl(a.m, a.e - e), BShl(b.m, b.e - e)), e, FALSE)

\* a - b; a result below zero carries the field neg and is no operand of
\* the operators above
FSub(a, b) ==
    IF FCmp(a, b) >= 0 THEN FSubAbs(a, b)
    ELSE LET d == FSubAbs(b, a) IN [m |-> d.m, e |-> d.e, neg |-> TRUE]

FNegative(a) == "neg" \in DOMAIN a

\* a / b for b # 0
FDiv(a, b) ==
    IF a = FZero THEN FZero
    ELSE LET qr == DivLimbs(a.m, BShl(b.m, 1), 4, << >>)
         IN  FRound(qr[1], a.e - b.e - (4 * LimbBits - 1), qr[2])

\* the float a decimal literal n/d denotes (n, d small integers)
FDec(n, d) == FDiv(FInt(n), FInt(d))

\* the floats the literals 1.0 and 0.5 denote
FOne == [m |-> <<0, 0, 0, 1024>>, e |-> -52]
FHalf == [m |-> <<0, 0, 0, 1024>>, e |-> -53]

(***************************************************************************)
(* The inputs of the model.  Probabilities and confidences are the decimal *)
(* literals n/10; a result is one of the first MaxLiterals entries of      *)
(* ResultLiterals, each <<probability_pd, confidence>> in tenths.          *)
(***************************************************************************)
MaxLiterals == 12

ResultLiterals ==
    << <<8, 9>>, <<8, 5>>, <<8, 6>>, <<8, 0>>,
       <<3, 9>>, <<3, 5>>, <<3, 6>>, <<3, 0>>,
       <<4, 9>>, <<4, 5>>, <<4, 6>>, <<4, 0>>,
       <<5, 10>>, <<0, 1>>, <<10, 3>>, <<9, 2>>, <<1, 7>>, <<6, 4>>,
       <<7, 8>>, <<2, 10>> >>

Literals == {ResultLiterals[i] : i \in 1..MinOf(MaxLiterals, Len(ResultLiterals))}
ConfTenths == {l[2] : l \in Literals}

\* the floats 0.0, 0.1, ..., 1.0
TenthFloats ==
    << [m |-> <<6554, 9830, 6553, 1638>>, e |-> -56],
       [m |-> <<6554, 9830, 6553, 1638>>, e |-> -55],
       [m |-> <<13107, 3276, 13107, 1228>>, e |-> -54],
       [m |-> <<6554, 9830, 6553, 1638>>, e |-> -54],
       [m |-> <<0, 0, 0, 1024>>, e |-> -53],
       [m |-> <<13107, 3276, 13107, 1228>>, e |-> -53],
       [m |-> <<9830, 6553, 9830, 1433>>, e |-> -53],
       [m |-> <<6554, 9830, 6553, 1638>>, e |-> -53],
       [m |-> <<3277, 13107, 3276, 1843>>, e |-> -53],
       [m |-> <<0, 0, 0, 1024>>, e |-> -52] >>

Tenth(n) == IF n = 0 THEN FZero ELSE TenthFloats[n]

Modalities == <<"voice", "datscan", "spiral">>

VARIABLES
    pc,                  \* where the caller of the fusion stands
    given,               \* the call's results as literals: <<[model_type, pd, conf], ...>>
    individual_results,  \* the dict handed to _perform_late_fusion, in insertion order
    fusion_result,       \* what _perform_late_fusion returned
    prev_given,          \* the previous call's literals
    prev_fusion,         \* what the previous call returned
    voice_analyzer,      \* self.voice_analyzer: "None" or "VoiceAnalyzer"
    analysis_data,       \* the keys of analysis_data that hold an input
    failing,             \* the modalities whose analysis raises on this request
    models_used,         \* models_used of the request
    errors,              \* errors of the request
    response,            \* what analyze_multimodal returned
    fault,               \* per modality, what goes wrong: "none", "upload", "analysis"
    status_code,         \* the HTTP status the endpoint answered with, 0 before
    fusion_calls,        \* the calls of _perform_late_fusion in this request
    temp_files,          \* the modalities whose temporary file is on disk
    np_random,           \* the state of numpy's process-wide random generator
    narrative,           \* what the narrator made of fusion_result
    prev_narrative,      \* what it made of the previous call's verdict
    loader_class,        \* the class of the model loader at hand
    loader,              \* its fields: model, scaler, feature_names, model_loaded
    loader_before,       \* its fields before the last call of load_model
    load_calls,          \* the calls of load_model so far
    load_returned,       \* what the last call returned: "none", "True", "False"
    last_loaded,         \* the last call that returned True, 0 when none did
    predict_outcome,     \* how the last call of predict ended, "none" before
    features,            \* the named features handed in last
    feature_vector,      \* the vector made of them
    prepared             \* how making it ended: "none", "vector", "raised"

request_vars == <<voice_analyzer, analysis_data, failing, models_used, errors, response>>

\* what lives in the process and on disk, across requests
process_vars == <<temp_files, np_random>>

narrator_vars == <<narrative, prev_narrative>>

loader_vars == <<loader_class, loader, loader_before, load_calls, load_returned,
                 last_loaded, predict_outcome, features, feature_vector, prepared>>

service_vars == <<pc, given, individual_results, fusion_result, prev_given,
                  prev_fusion, request_vars, fault, status_code, fusion_calls,
                  process_vars, narrator_vars>>

vars == <<service_vars, loader_vars>>

(***************************************************************************)
(* A model loader as __init__ leaves it.  A field holds the number of the  *)
(* load_model call that assigned it, 0 standing for None; feature_names    *)
(* holds the names too, and whether len() and iteration work on them.      *)
(***************************************************************************)
NoNames == [by |-> 0, usable |-> FALSE, names |-> << >>]

NewLoader ==
    [ model         |-> 0,
      scaler        |-> 0,
      feature_names |-> NoNames,
      model_loaded  |-> FALSE ]

NoFeatures == [n \in {} |-> "0.0"]

\* a loader nothing has been called on
LoaderUntouched ==
    /\ loader = NewLoader
    /\ loader_before = NewLoader
    /\ load_calls = 0
    /\ load_returned = "none"
    /\ last_loaded = 0
    /\ predict_outcome = "none"
    /\ features = NoFeatures
    /\ feature_vector = << >>
    /\ prepared = "none"

(***************************************************************************)
(* A modality's result dict as the DATScan and spiral services build it.   *)
(***************************************************************************)
ModalityResult(pd, conf) ==
    [ prediction          |-> IF FGt(pd, FHalf) THEN 1 ELSE 0,
      confidence          |-> conf,
      probability_pd      |-> pd,
      probability_healthy |-> FSub(FOne, pd) ]

\* the dict key -> value pairs, in insertion order
ResultsOf(g) ==
    [i \in 1..Len(g) |->
        [model_type |-> g[i].model_type,
         result     |-> ModalityResult(Tenth(g[i].pd), Tenth(g[i].conf))]]

(***************************************************************************)
(* MultimodalAnalysisService._perform_late_fusion                          *)
(***************************************************************************)
\* the floats 0.20, 0.50 and 0.30
base_weights ==
    [ voice   |-> [m |-> <<6554, 9830, 6553, 1638>>, e |-> -55],
      datscan |-> [m |-> <<0, 0, 0, 1024>>, e |-> -53],
      spiral  |-> [m |-> <<13107, 3276, 13107, 1228>>, e |-> -54] ]

\* base_weights.get(model_type, 0.1)
DefaultWeight == [m |-> <<6554, 9830, 6553, 1638>>, e |-> -56]

BaseWeightUnkeyed(model_type) == DefaultWeight

BaseWeight(model_type) ==
    IF model_type \in DOMAIN base_weights THEN base_weights[model_type]
    ELSE DefaultWeight

\* result.get('confidence') or 0.5: a confidence of 0 taken as missing
ResultConfidenceOrDefault(result) ==
    IF "confidence" \in DOMAIN result /\ result.confidence # FZero
    THEN result.confidence ELSE FHalf

\* result.get('confidence', 0.5)
ResultConfidence(result) ==
    IF "confidence" \in DOMAIN result THEN result.confidence ELSE FHalf

AdjustedWeightIgnoringConfidence(base_weight, confidence) == base_weight

AdjustedWeight(base_weight, confidence) == FMul(base_weight, confidence)

FusionStart ==
    [ total_weighted_probability |-> FZero,
      total_weight               |-> FZero,
      total_confidence           |-> FZero,
      available_models           |-> 0 ]

\* one pass of the loop body; a dict holding 'probability_pd' is truthy
Accumulate(acc, model_type, result) ==
    IF "probability_pd" \in DOMAIN result
    THEN LET confidence      == ResultConfidence(result)
             adjusted_weight == AdjustedWeight(BaseWeight(model_type), confidence)
         IN  [ total_weighted_probability |->
                   FAdd(acc.total_weighted_probability,
                        FMul(result.probability_pd, adjusted_weight)),
               total_weight     |-> FAdd(acc.total_weight, adjusted_weight),
               total_confidence |-> FAdd(acc.total_confidence, confidence),
               available_models |-> acc.available_models + 1 ]
    ELSE acc

\* the modalities whose results the fusion loop adds to its sums
Accumulated(items) ==
    { items[i].model_type :
        i \in {j \in 1..Len(items) : "probability_pd" \in DOMAIN items[j].result} }

RECURSIVE FusionLoop(_, _, _)
FusionLoop(items, i, acc) ==
    IF i > Len(items) THEN acc
    ELSE FusionLoop(items, i + 1, Accumulate(acc, items[i].model_type, items[i].result))

\* the weighted sum divided by the confidence sum instead of the weight sum
FusionProbabilityPdOverConfidence(acc) ==
    FDiv(acc.total_weighted_probability, acc.total_confidence)

FusionProbabilityPdUnnormalised(acc) == acc.total_weighted_probability

FusionProbabilityPd(acc) == FDiv(acc.total_weighted_probability, acc.total_weight)

FusionProbabilityHealthyAsPd(fusion_probability_pd) == fusion_probability_pd

FusionProbabilityHealthy(fusion_probability_pd) == FSub(FOne, fusion_probability_pd)

FusionConfidenceUndivided(acc) == acc.total_confidence

FusionConfidenceOfWeights(acc) ==
    IF acc.available_models > 0
    THEN FDiv(acc.total_weight, FInt(acc.available_models))
    ELSE FZero

FusionConfidence(acc) ==
    IF acc.available_models > 0
    THEN FDiv(acc.total_confidence, FInt(acc.available_models))
    ELSE FZero

FusionPredictionAtOrAbove(fusion_probability_pd) ==
    IF FGt(fusion_probability_pd, FHalf) \/ fusion_probability_pd = FHalf THEN 1 ELSE 0

FusionPrediction(fusion_probability_pd) ==
    IF FGt(fusion_probability_pd, FHalf) THEN 1 ELSE 0

\* a label that calls every verdict that is not Parkinson's insufficient
FusionLabelInsufficient(fusion_prediction) ==
    IF fusion_prediction = 1 THEN "Parkinson's Disease" ELSE "Insufficient Data"

FusionLabel(fusion_prediction) ==
    IF fusion_prediction = 1 THEN "Parkinson's Disease" ELSE "Healthy"

FallbackHalfConfident ==
    [ prediction          |-> 0,
      prediction_label    |-> "Insufficient Data",
      confidence          |-> FHalf,
      probability_pd      |-> FHalf,
      probability_healthy |-> FHalf ]

Fallback ==
    [ prediction          |-> 0,
      prediction_label    |-> "Insufficient Data",
      confidence          |-> FZero,
      probability_pd      |-> FHalf,
      probability_healthy |-> FHalf ]

_perform_late_fusion(results) ==
    LET acc == FusionLoop(results, 1, FusionStart)
    IN  IF FGt(acc.total_weight, FZero)
        THEN LET fusion_probability_pd == FusionProbabilityPd(acc)
                 fusion_prediction     == FusionPrediction(fusion_probability_pd)
             IN  [ prediction          |-> fusion_prediction,
                   prediction_label    |-> FusionLabel(fusion_prediction),
                   confidence          |-> FusionConfidence(acc),
                   probability_pd      |-> fusion_probability_pd,
                   probability_healthy |-> FusionProbabilityHealthy(fusion_probability_pd) ]
        ELSE Fallback

(***************************************************************************)
(* The narrator: _generate_clinical_summary and _generate_recommendations. *)
(* format(x, ".1%") multiplies x by 100 in binary64 and prints the product *)
(* with one decimal, rounding its exact value half to even.                *)
(***************************************************************************)
\* floor(n / 2^s) rounded half to even, q being the floor
RoundedHalfEven(n, s, q) ==
    BToInt(q) + (IF /\ BBit(n, s - 1) = 1
                    /\ (BAnyBelow(n, s - 1) \/ BOdd(q))
                 THEN 1 ELSE 0)

\* n * 2^(-s) as an integer
RoundedShift(n, s) ==
    IF s <= 0 THEN BToInt(BShl(n, 0 - s))
    ELSE RoundedHalfEven(n, s, BShr(n, s))

\* the tenths in the exact value of the float v
TenthsOf(v) ==
    IF v = FZero THEN 0 ELSE RoundedShift(BMulSmall(v.m, 10), 0 - v.e)

\* the tenths of a percent that format(f, ".1%") prints
PercentTenths(f) == TenthsOf(FMul(f, FInt(100)))

FormatTenths(t) == ToString(t \div 10) \o "." \o ToString(t % 10) \o "%"

FormatPercent(f) == FormatTenths(PercentTenths(f))

\* every modality taken to have a result
HasResultAlways(results, model_type) == TRUE

\* 'datscan' in individual_results
HasResult(results, model_type) ==
    \E i \in 1..Len(results) : results[i].model_type = model_type

Severity(confidence) ==
    IF FGt(confidence, Tenth(8)) THEN "high confidence"
    ELSE IF FGt(confidence, Tenth(6)) THEN "moderate confidence"
    ELSE "low confidence"

\* the summary up to the figure it quotes, if it quotes one
SummaryLead(verdict) ==
    IF verdict.prediction = 1
    THEN "Multi-modal analysis indicates " \o Severity(verdict.confidence)
            \o " for Parkinson's Disease "
    ELSE IF FGt(verdict.confidence, Tenth(8))
    THEN "Multi-modal analysis shows no significant indicators of Parkinson's Disease "
    ELSE "Multi-modal analysis suggests healthy status, though with limited confidence. "

_generate_clinical_summary(verdict, results) ==
    IF verdict.prediction = 1
    THEN SummaryLead(verdict)
            \o "(probability: " \o FormatPercent(verdict.probability_pd) \o "). "
            \o (IF HasResult(results, "datscan")
                THEN "DATScan imaging shows reduced dopamine transporter activity. "
                ELSE "")
            \o (IF HasResult(results, "voice")
                THEN "Voice analysis reveals characteristic vocal changes. "
                ELSE "")
            \o (IF HasResult(results, "spiral")
                THEN "Spiral drawing demonstrates motor control deficits. "
                ELSE "")
    ELSE SummaryLead(verdict)
            \o (IF FGt(verdict.confidence, Tenth(8))
                THEN "(confidence: " \o FormatPercent(verdict.confidence) \o "). "
                ELSE "")
            \o "All analyzed modalities are within normal ranges."

\* the items chosen by the verdict and its confidence
ConfidenceItems(verdict) ==
    IF verdict.prediction = 1
    THEN (IF FGt(verdict.confidence, Tenth(7))
          THEN << "Schedule comprehensive neurological evaluation",
                  "Consider referral to movement disorder specialist",
                  "Begin baseline motor function assessment" >>
          ELSE << "Schedule follow-up evaluation for confirmation",
                  "Monitor for symptom progression",
                  "Consider additional diagnostic testing" >>)
    ELSE IF FGt(verdict.confidence, Tenth(8))
    THEN << "Continue routine health monitoring",
            "No immediate follow-up required" >>
    ELSE << "Consider repeat testing in 6-12 months",
            "Monitor for new symptoms" >>

\* the modality items with the voice item ahead of the DATScan item
ModalityItemsVoiceFirst(verdict, results) ==
    IF verdict.prediction = 1
    THEN (IF HasResult(results, "voice")
          THEN << "Voice changes warrant speech therapy evaluation" >> ELSE << >>)
         \o (IF HasResult(results, "datscan")
             THEN << "DATScan results support clinical diagnosis" >> ELSE << >>)
         \o (IF HasResult(results, "spiral")
             THEN << "Motor assessment indicates need for physical therapy" >>
             ELSE << >>)
    ELSE << >>

\* the modality items given to a Healthy verdict too
ModalityItemsAnyVerdict(verdict, results) ==
    (IF HasResult(results, "datscan")
     THEN << "DATScan results support clinical diagnosis" >> ELSE << >>)
    \o (IF HasResult(results, "voice")
        THEN << "Voice changes warrant speech therapy evaluation" >> ELSE << >>)
    \o (IF HasResult(results, "spiral")
        THEN << "Motor assessment indicates need for physical therapy" >>
        ELSE << >>)

\* the items of the modalities that have a result, added to a Parkinson's
\* verdict only
ModalityItems(verdict, results) ==
    IF verdict.prediction = 1
    THEN (IF HasResult(results, "datscan")
          THEN << "DATScan results support clinical diagnosis" >> ELSE << >>)
         \o (IF HasResult(results, "voice")
             THEN << "Voice changes warrant speech therapy evaluation" >> ELSE << >>)
         \o (IF HasResult(results, "spiral")
             THEN << "Motor assessment indicates need for physical therapy" >>
             ELSE << >>)
    ELSE << >>

GeneralItems ==
    << "Maintain regular exercise routine",
       "Schedule annual neurological check-up" >>

_generate_recommendations(verdict, results) ==
    ConfidenceItems(verdict) \o ModalityItems(verdict, results) \o GeneralItems

\* what the narrator makes of a verdict
Narrate(verdict, results) ==
    [ clinical_summary |-> _generate_clinical_summary(verdict, results),
      recommendations  |-> _generate_recommendations(verdict, results) ]

NoNarrative == [clinical_summary |-> ""]

(***************************************************************************)
(* Calls of _perform_late_fusion by a caller that holds result dicts: a    *)
(* first call, then one more call on the same results inserted in another  *)
(* order, with one confidence raised, or followed by a malformed result.   *)
(***************************************************************************)
NoResult == [prediction |-> -1]
NoResponse == [fusion_prediction |-> -1]
NoFault == [voice |-> "none", datscan |-> "none", spiral |-> "none"]
\* numpy seeds its generator from the operating system at import
Unseeded == <<"entropy">>

\* every way to give each listed modality a result or none
RECURSIVE Givens(_)
Givens(i) ==
    IF i > Len(Modalities) THEN { << >> }
    ELSE LET rest == Givens(i + 1)
         IN  rest \cup
             { <<[model_type |-> Modalities[i], pd |-> l[1], conf |-> l[2]]>> \o r :
                 l \in Literals, r \in rest }

InitFusion ==
    /\ pc = "start"
    /\ given = << >>
    /\ individual_results = << >>
    /\ fusion_result = NoResult
    /\ prev_given = << >>
    /\ prev_fusion = NoResult
    /\ voice_analyzer = "None"
    /\ analysis_data = {}
    /\ failing = {}
    /\ models_used = << >>
    /\ errors = << >>
    /\ response = NoResponse
    /\ fault = NoFault
    /\ status_code = 0
    /\ fusion_calls = 0
    /\ temp_files = {}
    /\ np_random = Unseeded
    /\ narrative = NoNarrative
    /\ prev_narrative = NoNarrative
    /\ loader_class = "utils.ModelLoader"
    /\ LoaderUntouched

Call(g, next_pc) ==
    /\ given' = g
    /\ individual_results' = ResultsOf(g)
    /\ fusion_result' = _perform_late_fusion(individual_results')
    /\ prev_given' = given
    /\ prev_fusion' = fusion_result
    /\ narrative' = Narrate(fusion_result', individual_results')
    /\ prev_narrative' = narrative
    /\ pc' = next_pc
    /\ UNCHANGED <<request_vars, fault, status_code, fusion_calls, process_vars,
                   loader_vars>>

CallFusion ==
    /\ pc = "start"
    /\ \E g \in Givens(1) : Call(g, "fused")

CallPermuted ==
    /\ pc = "fused"
    /\ \E f \in Permutations(1..Len(given)) :
          /\ \E i \in 1..Len(given) : f[i] # i
          /\ Call([i \in 1..Len(given) |-> given[f[i]]], "permuted")

CallRaised ==
    /\ pc = "fused"
    /\ \E i \in 1..Len(given), c \in ConfTenths :
          /\ c > given[i].conf
          /\ Call([given EXCEPT ![i].conf = c], "raised")

\* result dicts that break the invariants of a modality result: a
\* confidence of 1.5, and probabilities 0.8 and 0.8 that do not sum to 1
MalformedResults ==
    { [ prediction          |-> 1,
        confidence          |-> [m |-> <<0, 0, 0, 1536>>, e |-> -52],
        probability_pd      |-> Tenth(8),
        probability_healthy |-> FSub(FOne, Tenth(8)) ],
      [ prediction          |-> 1,
        confidence          |-> Tenth(9),
        probability_pd      |-> Tenth(8),
        probability_healthy |-> Tenth(8) ] }

\* the same results again, followed by a malformed result of a modality
\* that had none
CallMalformed ==
    /\ pc = "fused"
    /\ \E i \in 1..Len(Modalities), bad \in MalformedResults :
          /\ \A j \in 1..Len(given) : given[j].model_type # Modalities[i]
          /\ individual_results' =
                Append(ResultsOf(given), [model_type |-> Modalities[i], result |-> bad])
          /\ fusion_result' = _perform_late_fusion(individual_results')
          /\ prev_given' = given
          /\ prev_fusion' = fusion_result
          /\ narrative' = Narrate(fusion_result', individual_results')
          /\ prev_narrative' = narrative
          /\ pc' = "malformed"
          /\ UNCHANGED <<given, request_vars, fault, status_code, fusion_calls,
                         process_vars, loader_vars>>

\* the same results again with one more result, of confidence 0, of a
\* modality that had none, at any place of the dict
CallWithZero ==
    /\ pc = "fused"
    /\ \E i \in 1..Len(Modalities), l \in {k \in Literals : k[2] = 0},
          at \in 1..(Len(given) + 1) :
          /\ \A j \in 1..Len(given) : given[j].model_type # Modalities[i]
          /\ Call(SubSeq(given, 1, at - 1)
                  \o <<[model_type |-> Modalities[i], pd |-> l[1], conf |-> 0]>>
                  \o SubSeq(given, at, Len(given)), "zeroed")

NextFusion ==
    CallFusion \/ CallPermuted \/ CallRaised \/ CallMalformed \/ CallWithZero

SpecFusion == InitFusion /\ [][NextFusion]_vars

(***************************************************************************)
(* The model loaders: utils.ModelLoader, services.ModelLoader,             *)
(* DATScanModelLoader and SpiralModelLoader.  load_model runs inside one   *)
(* try/except Exception that returns False; what it assigned to self       *)
(* before the exception stays assigned.                                    *)
(***************************************************************************)
MaxLoads == 2

LoaderClasses ==
    {"utils.ModelLoader", "services.ModelLoader", "DATScanModelLoader",
     "SpiralModelLoader"}

\* the name lists a features file can hold
ExpectedNames ==
    { <<"jitter", "shimmer">>, <<"shimmer", "hnr", "jitter">> }

\* where load_model can raise: the search finds no model file, a file is
\* missing, joblib.load of the model, of the scaler or of the feature names
\* raises, or the feature names loaded have no len()
FailPoints == {"search", "missing", "model", "scaler", "features", "len", "none"}

\* only services.ModelLoader derives scaler_path and features_path from a
\* model_path that is given; the others leave them unbound
PathsBound(class, model_path) ==
    model_path = "None" \/ class = "services.ModelLoader"

\* only the two voice loaders test that the three files exist before
\* loading any
ChecksFiles(class) == class \in {"utils.ModelLoader", "services.ModelLoader"}

\* only DATScanModelLoader does not take len(self.feature_names)
TakesLen(class) == class # "DATScanModelLoader"

\* the statement load_model raises at, "none" when it returns True
RaisesAt(class, model_path, fails_at) ==
    IF ~PathsBound(class, model_path) THEN "paths"
    ELSE IF fails_at = "search"
    THEN (IF model_path = "None" THEN "search"
          ELSE IF ChecksFiles(class) THEN "missing" ELSE "model")
    ELSE IF fails_at = "missing"
    THEN (IF ChecksFiles(class) THEN "missing" ELSE "scaler")
    ELSE IF fails_at = "len" /\ ~TakesLen(class) THEN "none"
    ELSE fails_at

\* the feature names assigned whatever the raise point spares them
LoadedNames(n, names, fails_at) ==
    [by |-> n, usable |-> fails_at # "len",
     names |-> IF fails_at # "len" THEN names ELSE << >>]

\* self after the n-th call, raising at the given statement
FieldsAfterLoad(self, n, names, fails_at, at) ==
    [ model         |-> IF at \in {"scaler", "features", "len", "none"}
                        THEN n ELSE self.model,
      scaler        |-> IF at \in {"features", "len", "none"}
                        THEN n ELSE self.scaler,
      feature_names |-> IF at \in {"len", "none"}
                        THEN LoadedNames(n, names, fails_at)
                        ELSE self.feature_names,
      model_loaded  |-> IF at = "none" THEN TRUE ELSE self.model_loaded ]

\* load_model(model_path): the fields of self afterwards and the value
\* returned
load_model(class, self, n, model_path, names, fails_at) ==
    LET at == RaisesAt(class, model_path, fails_at)
    IN  [ self     |-> FieldsAfterLoad(self, n, names, fails_at, at),
          returned |-> IF at = "none" THEN "True" ELSE "False" ]

\* predict without the model_loaded guard
PredictOutcomesUnguarded(self) == {"result", "PredictionError"}

\* np.nan_to_num left out
nan_to_num_identity(X) == X

\* how predict can end
PredictOutcomes(self) ==
    IF ~self.model_loaded THEN {"ModelNotLoaded"}
    ELSE {"result", "PredictionError"}

\* the values a named feature can have
FeatureValues == {"1.5", "nan", "inf", "-inf"}

FeatureNames == {"jitter", "shimmer", "f0_mean"}

\* for feature_name in expected: features[feature_name] if present, else 0.0
RECURSIVE AlignByName(_, _, _)
AlignByName(expected, named, i) ==
    IF i > Len(expected) THEN << >>
    ELSE << (IF expected[i] \in DOMAIN named THEN named[expected[i]] ELSE "0.0") >>
         \o AlignByName(expected, named, i + 1)

\* np.nan_to_num(X, nan=0.0, posinf=0.0, neginf=0.0)
nan_to_num(X) ==
    [i \in 1..Len(X) |-> IF X[i] \in {"nan", "inf", "-inf"} THEN "0.0" ELSE X[i]]

_prepare_features_for_prediction(expected, named) ==
    nan_to_num(AlignByName(expected, named, 1))

InitLoader ==
    /\ pc = "loader"
    /\ given = << >>
    /\ individual_results = << >>
    /\ fusion_result = NoResult
    /\ prev_given = << >>
    /\ prev_fusion = NoResult
    /\ voice_analyzer = "None"
    /\ analysis_data = {}
    /\ failing = {}
    /\ models_used = << >>
    /\ errors = << >>
    /\ response = NoResponse
    /\ fault = NoFault
    /\ status_code = 0
    /\ fusion_calls = 0
    /\ temp_files = {}
    /\ np_random = Unseeded
    /\ narrative = NoNarrative
    /\ prev_narrative = NoNarrative
    /\ loader_class \in LoaderClasses
    /\ LoaderUntouched

LoadModel ==
    /\ pc = "loader"
    /\ load_calls < MaxLoads
    /\ \E model_path \in {"None", "path"}, names \in ExpectedNames,
          fails_at \in FailPoints :
          LET n     == load_calls + 1
              after == load_model(loader_class, loader, n, model_path, names, fails_at)
          IN  /\ loader' = after.self
              /\ load_returned' = after.returned
              /\ last_loaded' = IF after.returned = "True" THEN n ELSE last_loaded
              /\ load_calls' = n
    /\ loader_before' = loader
    /\ predict_outcome' = "none"
    /\ features' = NoFeatures
    /\ feature_vector' = << >>
    /\ prepared' = "none"
    /\ UNCHANGED <<service_vars, loader_class>>

Predict ==
    /\ pc = "loader"
    /\ \E outcome \in PredictOutcomes(loader) : predict_outcome' = outcome
    /\ UNCHANGED <<service_vars, loader_class, loader, loader_before, load_calls,
                   load_returned, last_loaded, features, feature_vector, prepared>>

\* a named feature mapping is made into the classifier's vector
PrepareFeatures ==
    /\ pc = "loader"
    /\ \E present \in SUBSET FeatureNames :
          \E named \in [present -> FeatureValues] :
             /\ features' = named
             /\ IF loader.feature_names.usable
                THEN /\ feature_vector' =
                           _prepare_features_for_prediction(
                               loader.feature_names.names, named)
                     /\ prepared' = "vector"
                ELSE /\ feature_vector' = << >>
                     /\ prepared' = "raised"
    /\ UNCHANGED <<service_vars, loader_class, loader, loader_before, load_calls,
                   load_returned, last_loaded, predict_outcome>>

NextLoader == LoadModel \/ Predict \/ PrepareFeatures

SpecLoader == InitLoader /\ [][NextLoader]_vars

(***************************************************************************)
(* MultimodalAnalysisService.analyze_multimodal, one request at a time.    *)
(* The endpoint builds a new service for every request.  A modality is     *)
(* requested when its input is there; its analysis returns a result dict   *)
(* or raises.  The voice analysis always raises: without a loaded model    *)
(* self.voice_analyzer is None, and with one the VoiceAnalyzer is built    *)
(* with feature_extractor = None, which analyze_voice dereferences.        *)
(***************************************************************************)
InputKey == [voice |-> "voice_file", datscan |-> "datscan_file", spiral |-> "spiral_data"]

\* no input is ever taken as given
RequestedNever(m) == FALSE

Requested(m) == InputKey[m] \in analysis_data

\* what the mock predictions of the DATScan and spiral services can
\* return: probability_pd clipped to [0.1, 0.9], confidence to [0.3, 0.95]
ServiceLiterals ==
    {l \in Literals : l[1] >= 1 /\ l[1] <= 9 /\ l[2] >= 3 /\ l[2] <= 9}

\* an entry of errors, f"{what} analysis failed: {str(e)}", as the pair of
\* its two parts
ErrorMsg(what, e) == <<what \o " analysis failed", e>>

\* a failure recorded twice
ModalityFailedTwice(errs, error_msg, next_pc) ==
    [errors |-> Append(Append(errs, error_msg), error_msg), pc |-> next_pc]

ModalityFailedAborts(errs, error_msg, next_pc) ==
    [errors |-> errs, pc |-> "exception"]

\* a failure that leaves no trace in errors
ModalityFailedSilently(errs, error_msg, next_pc) ==
    [errors |-> errs, pc |-> next_pc]

\* the except clause of a modality: record the error, go on
ModalityFailed(errs, error_msg, next_pc) ==
    [errors |-> Append(errs, error_msg), pc |-> next_pc]

Skip(next_pc) ==
    /\ pc' = next_pc
    /\ UNCHANGED <<given, individual_results, fusion_result, prev_given,
                   prev_fusion, request_vars, fault, status_code,
                   fusion_calls, process_vars, narrator_vars, loader_vars>>

\* _analyze_voice and _analyze_datscan: NamedTemporaryFile(delete=False),
\* then the upload is read and written inside the with block, and only
\* after it a try/finally unlinks the file
TempFilesAfter(m, files, what) ==
    IF what = "upload" THEN files \cup {m} ELSE files

Fail(error_msg, next_pc, files) ==
    LET after == ModalityFailed(errors, error_msg, next_pc)
    IN  /\ errors' = after.errors
        /\ pc' = after.pc
        /\ temp_files' = files
        /\ UNCHANGED <<given, individual_results, fusion_result, prev_given,
                       prev_fusion, voice_analyzer, analysis_data, failing,
                       models_used, response, fault, status_code,
                       fusion_calls, np_random, narrator_vars, loader_vars>>

\* a result stored without naming its modality in models_used
SucceedUnlisted(m, l, next_pc) ==
    /\ given' = Append(given, [model_type |-> m, pd |-> l[1], conf |-> l[2]])
    /\ individual_results' =
          Append(individual_results,
                 [model_type |-> m,
                  result |-> ModalityResult(Tenth(l[1]), Tenth(l[2]))])
    /\ np_random' = <<m, l>>
    /\ pc' = next_pc
    /\ UNCHANGED <<fusion_result, prev_given, prev_fusion, voice_analyzer,
                   analysis_data, failing, errors, response, fault,
                   status_code, fusion_calls, temp_files, models_used,
                   narrator_vars, loader_vars>>

Succeed(m, l, next_pc) ==
    /\ given' = Append(given, [model_type |-> m, pd |-> l[1], conf |-> l[2]])
    /\ individual_results' =
          Append(individual_results,
                 [model_type |-> m,
                  result |-> ModalityResult(Tenth(l[1]), Tenth(l[2]))])
    /\ models_used' = Append(models_used, m)
    /\ np_random' = <<m, l>>
    /\ pc' = next_pc
    /\ UNCHANGED <<fusion_result, prev_given, prev_fusion, voice_analyzer,
                   analysis_data, failing, errors, response, fault,
                   status_code, fusion_calls, temp_files, narrator_vars,
                   loader_vars>>

Init ==
    /\ pc = "startup"
    /\ given = << >>
    /\ individual_results = << >>
    /\ fusion_result = NoResult
    /\ prev_given = << >>
    /\ prev_fusion = NoResult
    /\ voice_analyzer = "None"
    /\ analysis_data = {}
    /\ failing = {}
    /\ models_used = << >>
    /\ errors = << >>
    /\ response = NoResponse
    /\ fault = NoFault
    /\ status_code = 0
    /\ fusion_calls = 0
    /\ temp_files = {}
    /\ np_random = Unseeded
    /\ narrative = NoNarrative
    /\ prev_narrative = NoNarrative
    /\ loader_class = "utils.ModelLoader"
    /\ LoaderUntouched

\* what can go wrong with a modality's input: the upload cannot be read or
\* stored, or the analysis raises on it; spiral data is a form string
Faults(m) == IF m = "spiral" THEN {"none", "analysis"} ELSE {"none", "upload", "analysis"}

\* lifespan: the application loads the voice model at startup and raises
\* when load_model returns False; the server then exits without serving
Lifespan ==
    /\ pc = "startup"
    /\ \E names \in ExpectedNames, fails_at \in FailPoints :
          LET after == load_model(loader_class, loader, 1, "None", names, fails_at)
          IN  /\ loader' = after.self
              /\ load_returned' = after.returned
              /\ last_loaded' = IF after.returned = "True" THEN 1 ELSE 0
              /\ pc' = IF after.returned = "True" THEN "idle" ELSE "exited"
    /\ loader_before' = loader
    /\ load_calls' = 1
    /\ UNCHANGED <<given, individual_results, fusion_result, prev_given,
                   prev_fusion, request_vars, fault, status_code, fusion_calls,
                   process_vars, narrator_vars, loader_class, predict_outcome,
                   features, feature_vector, prepared>>

\* POST /multimodal-analysis: a new service, then analyze_multimodal up to
\* the first modality
Receive ==
    /\ pc \in {"idle", "done"}
    /\ \E loaded \in BOOLEAN :
          voice_analyzer' = IF loaded THEN "VoiceAnalyzer" ELSE "None"
    /\ \E data \in SUBSET {InputKey[m] : m \in DOMAIN InputKey} :
          /\ analysis_data' = data
          /\ \E ft \in [DOMAIN InputKey -> {"none", "upload", "analysis"}] :
                /\ \A m \in DOMAIN InputKey :
                      ft[m] \in (IF InputKey[m] \in data THEN Faults(m) ELSE {"none"})
                /\ fault' = ft
                /\ failing' = {m \in DOMAIN InputKey :
                                 /\ InputKey[m] \in data
                                 /\ m = "voice" \/ ft[m] # "none"}
    /\ given' = << >>
    /\ individual_results' = << >>
    /\ models_used' = << >>
    /\ errors' = << >>
    /\ fusion_result' = NoResult
    /\ response' = NoResponse
    /\ status_code' = 0
    /\ fusion_calls' = 0
    /\ pc' = "voice"
    /\ narrative' = NoNarrative
    /\ UNCHANGED <<prev_given, prev_fusion, process_vars, prev_narrative,
                   loader_vars>>

VoiceSkipped == pc = "voice" /\ ~Requested("voice") /\ Skip("datscan")

VoiceFailed ==
    /\ pc = "voice"
    /\ Requested("voice")
    /\ Fail(ErrorMsg("Voice",
                     IF voice_analyzer = "None"
                     THEN "Voice analyzer not initialized"
                     ELSE IF fault.voice = "upload"
                     THEN "upload not readable"
                     ELSE "'NoneType' object has no attribute 'extract_all_features'"),
            "datscan",
            IF voice_analyzer = "None" THEN temp_files
            ELSE TempFilesAfter("voice", temp_files, fault.voice))

DatscanSkipped == pc = "datscan" /\ ~Requested("datscan") /\ Skip("spiral")

DatscanAnalysed ==
    /\ pc = "datscan"
    /\ Requested("datscan")
    /\ "datscan" \notin failing
    /\ \E l \in ServiceLiterals : Succeed("datscan", l, "spiral")

DatscanFailed ==
    /\ pc = "datscan"
    /\ Requested("datscan")
    /\ "datscan" \in failing
    /\ Fail(ErrorMsg("DATScan",
                     IF fault.datscan = "upload" THEN "upload not readable"
                     ELSE "Failed to load image"),
            "spiral",
            TempFilesAfter("datscan", temp_files, fault.datscan))

SpiralSkipped == pc = "spiral" /\ ~Requested("spiral") /\ Skip("fusion")

SpiralAnalysed ==
    /\ pc = "spiral"
    /\ Requested("spiral")
    /\ "spiral" \notin failing
    /\ \E l \in ServiceLiterals : Succeed("spiral", l, "fusion")

SpiralFailed ==
    /\ pc = "spiral"
    /\ Requested("spiral")
    /\ "spiral" \in failing
    /\ Fail(ErrorMsg("Spiral", "Failed to decode image"), "fusion", temp_files)

\* the late fusion, the narrator and the response
Respond ==
    /\ pc = "fusion"
    /\ fusion_result' = _perform_late_fusion(individual_results)
    /\ narrative' = Narrate(fusion_result', individual_results)
    /\ response' =
          [ fusion_prediction          |-> fusion_result'.prediction,
            fusion_prediction_label    |-> fusion_result'.prediction_label,
            fusion_confidence          |-> fusion_result'.confidence,
            fusion_probability_pd      |-> fusion_result'.probability_pd,
            fusion_probability_healthy |-> fusion_result'.probability_healthy,
            individual_results         |-> individual_results,
            models_used                |-> models_used,
            clinical_summary           |-> narrative'.clinical_summary,
            recommendations            |-> narrative'.recommendations,
            errors                     |-> IF errors # << >> THEN errors ELSE "None" ]
    /\ fusion_calls' = fusion_calls + 1
    /\ status_code' = 200
    /\ pc' = "done"
    /\ UNCHANGED <<given, individual_results, prev_given, prev_fusion,
                   voice_analyzer, analysis_data, failing, models_used, errors,
                   fault, process_vars, prev_narrative, loader_vars>>

Next ==
    \/ Lifespan
    \/ Receive
    \/ VoiceSkipped \/ VoiceFailed
    \/ DatscanSkipped \/ DatscanAnalysed \/ DatscanFailed
    \/ SpiralSkipped \/ SpiralAnalysed \/ SpiralFailed
    \/ Respond

Spec == Init /\ [][Next]_vars

(***************************************************************************)
(* What the calls are measured against: the exact rational value of the    *)
(* weighted average of the literals handed in.  A probability or           *)
(* confidence is n/10 and a base weight w/100, so the sums below are       *)
(* integers.                                                               *)
(***************************************************************************)
WeightHundredths(model_type) ==
    CASE model_type = "voice"   -> 20
      [] model_type = "datscan" -> 50
      [] model_type = "spiral"  -> 30

\* 1000 * SUM base_weight * confidence
RECURSIVE WeightTotal(_, _)
WeightTotal(g, i) ==
    IF i > Len(g) THEN 0
    ELSE WeightHundredths(g[i].model_type) * g[i].conf + WeightTotal(g, i + 1)

\* 10000 * SUM probability_pd * base_weight * confidence
RECURSIVE WeightedTotal(_, _)
WeightedTotal(g, i) ==
    IF i > Len(g) THEN 0
    ELSE g[i].pd * WeightHundredths(g[i].model_type) * g[i].conf
         + WeightedTotal(g, i + 1)

\* 10 * SUM confidence
RECURSIVE ConfTotal(_, _)
ConfTotal(g, i) == IF i > Len(g) THEN 0 ELSE g[i].conf + ConfTotal(g, i + 1)

\* 1 / 1e-9
PerTolerance == BFromInt(1000 * 1000 * 1000)

\* the sign of f - x/y - t * 1e-9 for a float 0 <= f < 2^52, integers
\* x >= 0 and y > 0, and t in {-1, 0, 1}
Versus(f, x, y, t) ==
    LET k   == IF f = FZero THEN 0 ELSE 0 - f.e
        lhs == BMul(BMul(f.m, BFromInt(y)), PerTolerance)
        mid == BShl(BMul(BFromInt(x), PerTolerance), k)
        tol == BShl(BFromInt(y), k)
    IN  IF t = 1 THEN BCmp(lhs, BAdd(mid, tol))
        ELSE IF t = 0 THEN BCmp(lhs, mid)
        ELSE BCmp(BAdd(lhs, tol), mid)

\* | f - x/y | <= 1e-9
Close(f, x, y) == Versus(f, x, y, 1) <= 0 /\ Versus(f, x, y, -1) >= 0

\* a call of the fusion on well-formed results has returned
Called == pc \in {"fused", "permuted", "raised"}

ScenarioA ==
    << [model_type |-> "voice", pd |-> 8, conf |-> 9],
       [model_type |-> "datscan", pd |-> 3, conf |-> 5] >>

\* C1: whenever the total effective weight is > 0, the returned
\* probability_pd is SUM(probability_pd * base_weight * confidence) /
\* SUM(base_weight * confidence) with base weights 0.20, 0.50 and 0.30 (to
\* within 1e-9 of the exact quotient); voice {0.8, 0.9} with datscan
\* {0.3, 0.5} returns the float 0.219/0.43 and prediction 1.
C1_WeightedAverage ==
    Called =>
      /\ WeightTotal(given, 1) > 0 =>
            Close(fusion_result.probability_pd,
                  WeightedTotal(given, 1), 10 * WeightTotal(given, 1))
      /\ given = ScenarioA =>
            /\ fusion_result.probability_pd = FDiv(FDec(219, 1000), FDec(43, 100))
            /\ fusion_result.prediction = 1

C1_Witness ==
    /\ pc = "fused"
    /\ given = ScenarioA
    /\ fusion_result.prediction = 1
    /\ Close(fusion_result.probability_pd, 219, 430)

AllZeroWeight(g) == WeightTotal(g, 1) = 0

SameVerdict(a, b) ==
    /\ a.prediction = b.prediction
    /\ a.probability_pd = b.probability_pd
    /\ a.probability_healthy = b.probability_healthy
    /\ a.confidence = b.confidence

\* C4: handing the same results to the fusion in another order returns a
\* verdict equal field by field (prediction, probability_pd,
\* probability_healthy, confidence).
C4_OrderIndependent ==
    pc = "permuted" => SameVerdict(fusion_result, prev_fusion)

\* C5: for every verdict, from the weighted path or the fallback,
\* probability_pd + probability_healthy is 1.0.
C5_SumsToOne ==
    Called =>
      FAdd(fusion_result.probability_pd, fusion_result.probability_healthy) = FOne

C5_Witness ==
    /\ pc = "fused"
    /\ Len(given) = 3
    /\ ~AllZeroWeight(given)
    /\ fusion_result.probability_pd # fusion_result.probability_healthy
    /\ Versus(fusion_result.probability_pd, 1, 2, 0) < 0
    /\ FAdd(fusion_result.probability_pd, fusion_result.probability_healthy) = FOne

InUnit(f) == ~FNegative(f) /\ FLe(f, FOne)

\* C6: for 0 to 3 results with probability_pd and confidence in [0, 1],
\* the verdict's confidence, probability_pd and probability_healthy all
\* lie in [0, 1].
C6_UnitRanges ==
    Called =>
      /\ InUnit(fusion_result.confidence)
      /\ InUnit(fusion_result.probability_pd)
      /\ InUnit(fusion_result.probability_healthy)

C6_Witness ==
    /\ pc = "fused"
    /\ Len(given) = 3
    /\ \A i \in 1..3 : given[i].pd = 8 /\ given[i].conf = 9
    /\ InUnit(fusion_result.confidence)
    /\ InUnit(fusion_result.probability_pd)
    /\ InUnit(fusion_result.probability_healthy)

\* C7: the prediction is 1 exactly when the returned probability_pd is
\* strictly greater than 0.5; a returned probability_pd of exactly 0.5 has
\* prediction 0.
C7_StrictThreshold ==
    Called =>
      /\ fusion_result.prediction = 1 <=> FGt(fusion_result.probability_pd, FHalf)
      /\ fusion_result.prediction \in {0, 1}
      /\ fusion_result.probability_pd = FHalf => fusion_result.prediction = 0

\* two results of different probabilities whose weighted average is 0.5
C7_Witness ==
    /\ pc = "fused"
    /\ Len(given) = 2
    /\ given[1].pd # given[2].pd
    /\ ~AllZeroWeight(given)
    /\ fusion_result.probability_pd = FHalf
    /\ fusion_result.prediction = 0

ScenarioB == << [model_type |-> "spiral", pd |-> 4, conf |-> 6] >>

\* the prediction a probability of n/10 has
PredictionOfTenths(n) == IF n > 5 THEN 1 ELSE 0

\* C8 as the spec states it: the fusion of a single result R returns
\* R.probability_pd itself and R's confidence.
C8_PassThroughExact ==
    (Called /\ Len(given) = 1) =>
      /\ fusion_result.probability_pd = Tenth(given[1].pd)
      /\ fusion_result.confidence = Tenth(given[1].conf)

\* C8 (amended): the fusion of a single result R of any modality with
\* confidence c > 0 returns a probability_pd within 1e-9 of
\* R.probability_pd, the prediction of R.probability_pd, and confidence c
\* itself; spiral alone with {0.4, 0.6} gives prediction 0, confidence 0.6.
C8_PassThrough ==
    (Called /\ Len(given) = 1 /\ given[1].conf > 0) =>
      /\ Close(fusion_result.probability_pd, given[1].pd, 10)
      /\ fusion_result.prediction = PredictionOfTenths(given[1].pd)
      /\ fusion_result.confidence = Tenth(given[1].conf)

C8_Witness ==
    /\ pc = "fused"
    /\ given = ScenarioB
    /\ Close(fusion_result.probability_pd, 4, 10)
    /\ fusion_result.probability_pd # Tenth(4)
    /\ fusion_result.prediction = 0
    /\ fusion_result.confidence = Tenth(6)

\* the result whose confidence the last call raised
RaisedIndex == CHOOSE i \in 1..Len(given) : given[i].conf > prev_given[i].conf

\* C9 as the spec states it: raising the confidence of a contributing
\* result whose probability_pd is above the fused probability_pd strictly
\* increases the fused probability_pd, and of one below it strictly
\* decreases it.
C9_Monotone ==
    (pc = "raised" /\ prev_given[RaisedIndex].conf > 0) =>
      LET p == Tenth(given[RaisedIndex].pd)
      IN  /\ FGt(p, prev_fusion.probability_pd) =>
                FGt(fusion_result.probability_pd, prev_fusion.probability_pd)
          /\ FGt(prev_fusion.probability_pd, p) =>
                FGt(prev_fusion.probability_pd, fusion_result.probability_pd)

\* C9 (amended): raising by 0.1 or more the confidence of a result whose
\* probability_pd is more than 1e-9 above the fused probability_pd
\* strictly increases the fused probability_pd, and of one more than 1e-9
\* below it strictly decreases it.
C9_MonotoneBeyondNoise ==
    pc = "raised" =>
      LET n == given[RaisedIndex].pd
      IN  /\ Versus(prev_fusion.probability_pd, n, 10, -1) < 0 =>
                FGt(fusion_result.probability_pd, prev_fusion.probability_pd)
          /\ Versus(prev_fusion.probability_pd, n, 10, 1) > 0 =>
                FGt(prev_fusion.probability_pd, fusion_result.probability_pd)

C9_Witness ==
    /\ pc = "raised"
    /\ Len(given) = 3
    /\ prev_given[RaisedIndex].conf > 0
    /\ Versus(prev_fusion.probability_pd, given[RaisedIndex].pd, 10, -1) < 0
    /\ FGt(fusion_result.probability_pd, prev_fusion.probability_pd)

\* C10: when the total effective weight is > 0 the verdict's confidence is
\* the plain arithmetic mean of the results' confidences (to within 1e-9),
\* whatever the base weights of their modalities.
C10_MeanConfidence ==
    (Called /\ ~AllZeroWeight(given)) =>
      Close(fusion_result.confidence, ConfTotal(given, 1), 10 * Len(given))

C10_Witness ==
    /\ pc = "fused"
    /\ Len(given) = 3
    /\ given[1].conf # given[2].conf
    /\ given[2].conf # given[3].conf
    /\ given[1].conf # given[3].conf
    /\ ~AllZeroWeight(given)
    /\ Close(fusion_result.confidence, ConfTotal(given, 1), 30)

ErrorOf == [voice   |-> "Voice analysis failed",
            datscan |-> "DATScan analysis failed",
            spiral  |-> "Spiral analysis failed"]

\* C3: in analyze_multimodal a modality that raises never aborts the
\* request or the other modalities: for every set of requested modalities
\* and every set of them that fails, no exception leaves the handler, every
\* other requested modality is analysed, the failed ones are left out of
\* the fusion and recorded in errors, and the response carries the verdict
\* fused from the remaining results.
C3_FailureIsolation ==
    /\ pc # "exception"
    /\ pc = "done" =>
          /\ response # NoResponse
          /\ \A m \in DOMAIN InputKey :
                /\ (Requested(m) /\ m \notin failing)
                      <=> \E i \in 1..Len(models_used) : models_used[i] = m
                /\ (Requested(m) /\ m \notin failing)
                      <=> \E i \in 1..Len(individual_results) :
                             individual_results[i].model_type = m
                /\ (Requested(m) /\ m \in failing)
                      <=> \E i \in 1..Len(errors) : errors[i][1] = ErrorOf[m]
          /\ Len(errors) = Cardinality(failing)
          /\ response.errors = IF failing = {} THEN "None" ELSE errors
          /\ response.individual_results = individual_results
          /\ response.fusion_prediction \in {0, 1}
          /\ IF AllZeroWeight(given)
             THEN response.fusion_prediction_label = "Insufficient Data"
             ELSE Close(response.fusion_probability_pd,
                        WeightedTotal(given, 1), 10 * WeightTotal(given, 1))

C3_Witness ==
    /\ pc = "done"
    /\ Cardinality(analysis_data) = 3
    /\ failing = {"voice", "datscan"}
    /\ models_used = <<"spiral">>
    /\ Len(response.errors) = 2
    /\ response.fusion_prediction = 1
    /\ Close(response.fusion_probability_pd, given[1].pd, 10)

AllRequestedAllFailed ==
    /\ pc = "done"
    /\ Cardinality(analysis_data) = 3
    /\ failing = {"voice", "datscan", "spiral"}

C12_NoInputRejected ==
    /\ (analysis_data = {}) => fusion_calls = 0
    /\ (pc = "done" /\ analysis_data = {}) =>
          /\ status_code \in 400..499
          /\ response = NoResponse

\* C13: a modality result that breaks the result invariants (confidence
\* outside [0, 1], or probability_pd + probability_healthy # 1) never
\* contributes to the fused verdict: the verdict of the results with the
\* malformed one added is the verdict of the results without it.
C13_MalformedExcluded ==
    pc = "malformed" => fusion_result = prev_fusion

\* the analysis of modality m has returned a result or has failed
Finished(m) ==
    \/ \E i \in 1..Len(models_used) : models_used[i] = m
    \/ \E i \in 1..Len(errors) : errors[i][1] = ErrorOf[m]

\* C14: in every execution of analyze_multimodal the fusion is invoked only
\* after the analysis of every requested modality has finished (returned a
\* result or failed), never while one is pending, and exactly once per
\* request.
C14_Barrier ==
    /\ fusion_calls \in {0, 1}
    /\ fusion_calls = 1 <=> pc = "done"
    /\ pc \in {"fusion", "done"} =>
          \A m \in DOMAIN InputKey : InputKey[m] \in analysis_data => Finished(m)
    /\ pc \in {"voice", "datscan", "spiral", "fusion"} => fusion_result = NoResult

C14_Witness ==
    /\ pc = "done"
    /\ fusion_calls = 1
    /\ Cardinality(analysis_data) = 3
    /\ models_used = <<"datscan", "spiral">>
    /\ Len(errors) = 1
    /\ fusion_result # NoResult

\* C15: a modality supplied with a valid input while its model is loaded
\* has its predictor run and its result passed to the fusion; in particular
\* a valid voice recording submitted while the voice model is loaded
\* contributes to the fused verdict and is not in errors.
C15_ValidVoiceContributes ==
    (/\ pc = "done"
     /\ InputKey.voice \in analysis_data
     /\ voice_analyzer = "VoiceAnalyzer"
     /\ fault.voice = "none") =>
        /\ \E i \in 1..Len(models_used) : models_used[i] = "voice"
        /\ \E i \in 1..Len(individual_results) :
              individual_results[i].model_type = "voice"
        /\ \A i \in 1..Len(errors) : errors[i][1] # ErrorOf.voice

\* C16: the modalities reported in models_used are exactly the modalities
\* whose results were accumulated into the fusion sums, and models_used is
\* empty only when no result was supplied to the fusion.
C16_UsedAreAccumulated ==
    pc = "done" =>
      /\ {response.models_used[i] : i \in 1..Len(response.models_used)}
            = Accumulated(response.individual_results)
      /\ Len(response.models_used) = Cardinality(Accumulated(individual_results))
      /\ FusionLoop(individual_results, 1, FusionStart).available_models
            = Len(response.models_used)
      /\ response.models_used = << >> => individual_results = << >>

C16_Witness ==
    /\ pc = "done"
    /\ response.models_used = <<"datscan", "spiral">>
    /\ Accumulated(individual_results) = {"datscan", "spiral"}
    /\ Len(errors) = 1
    /\ response.fusion_prediction_label # "Insufficient Data"

\* C17: the fallback verdict labelled "Insufficient Data" is returned if
\* and only if no usable result reached the fusion (none supplied, or total
\* effective weight 0); whenever a result with positive confidence is
\* supplied the verdict is a Healthy / Parkinson's Disease verdict computed
\* from the inputs.
C17_InsufficientIffNoUsable ==
    Called =>
      /\ fusion_result.prediction_label = "Insufficient Data"
            <=> AllZeroWeight(given)
      /\ AllZeroWeight(given) => fusion_result = Fallback
      /\ (\E i \in 1..Len(given) : given[i].conf > 0) =>
            /\ fusion_result.prediction_label =
                  (IF fusion_result.prediction = 1
                   THEN "Parkinson's Disease" ELSE "Healthy")
            /\ fusion_result.prediction =
                  (IF FGt(fusion_result.probability_pd, FHalf) THEN 1 ELSE 0)
            /\ Close(fusion_result.probability_pd,
                     WeightedTotal(given, 1), 10 * WeightTotal(given, 1))

C17_Witness ==
    /\ pc = "raised"
    /\ Len(given) = 2
    /\ AllZeroWeight(prev_given)
    /\ prev_fusion.prediction_label = "Insufficient Data"
    /\ fusion_result.prediction_label = "Healthy"

\* C18: every temporary file created for an uploaded voice or DATScan
\* payload is deleted on every exit path of the request that created it,
\* the paths where reading the upload or writing the file raises included:
\* no temporary file is left when the request has been answered.
C18_TempFilesDeleted ==
    pc \in {"idle", "done"} => temp_files = {}

\* C19: handling a request writes no process-wide mutable state shared with
\* other requests: no step of a request changes the state of the global
\* random generator.
C19_NoSharedStateWritten ==
    [][np_random' = np_random]_vars

\* the confidence tiers of the narrator: above 0.8, above 0.6, the rest
ConfidenceTier(confidence) ==
    IF FGt(confidence, Tenth(8)) THEN "high"
    ELSE IF FGt(confidence, Tenth(6)) THEN "moderate"
    ELSE "low"

\* C20: the narrator branches on confidence only at the tier boundaries
\* 0.8 and 0.6, for both verdicts and for both outputs: two verdicts with
\* the same prediction and the same contributing modalities whose
\* confidences fall in the same tier get the same tier wording in
\* clinical_summary and the same recommendations.
C20_SameTierSameNarration ==
    (/\ pc = "raised"
     /\ fusion_result.prediction = prev_fusion.prediction
     /\ ConfidenceTier(fusion_result.confidence)
           = ConfidenceTier(prev_fusion.confidence)) =>
        /\ SummaryLead(fusion_result) = SummaryLead(prev_fusion)
        /\ narrative.recommendations = prev_narrative.recommendations

\* the text t occurs in the text s
Contains(s, t) ==
    \E i \in 1..(Len(s) - Len(t) + 1) : SubSeq(s, i, i + Len(t) - 1) = t

ModalitySentence ==
    [ voice   |-> "Voice analysis reveals characteristic vocal changes. ",
      datscan |-> "DATScan imaging shows reduced dopamine transporter activity. ",
      spiral  |-> "Spiral drawing demonstrates motor control deficits. " ]

\* C21: clinical_summary contains the sentence of a modality only if that
\* modality contributed to the fused verdict: no sentence about a modality
\* that was not requested, that failed or that did not enter the fusion.
C21_SentenceOnlyIfContributed ==
    pc = "done" =>
      \A m \in DOMAIN ModalitySentence :
         Contains(response.clinical_summary, ModalitySentence[m]) =>
            /\ InputKey[m] \in analysis_data
            /\ m \notin failing
            /\ \A i \in 1..Len(errors) : errors[i][1] # ErrorOf[m]
            /\ \E i \in 1..Len(response.models_used) : response.models_used[i] = m
            /\ m \in Accumulated(individual_results)

C21_Witness ==
    /\ pc = "done"
    /\ Cardinality(analysis_data) = 3
    /\ failing = {"voice"}
    /\ response.fusion_prediction = 1
    /\ Contains(response.clinical_summary, ModalitySentence.datscan)
    /\ Contains(response.clinical_summary, ModalitySentence.spiral)
    /\ ~Contains(response.clinical_summary, ModalitySentence.voice)

ConfidenceItemSet ==
    { "Schedule comprehensive neurological evaluation",
      "Consider referral to movement disorder specialist",
      "Begin baseline motor function assessment",
      "Schedule follow-up evaluation for confirmation",
      "Monitor for symptom progression",
      "Consider additional diagnostic testing",
      "Continue routine health monitoring",
      "No immediate follow-up required",
      "Consider repeat testing in 6-12 months",
      "Monitor for new symptoms" }

ModalityItem ==
    [ voice   |-> "Voice changes warrant speech therapy evaluation",
      datscan |-> "DATScan results support clinical diagnosis",
      spiral  |-> "Motor assessment indicates need for physical therapy" ]

GeneralTail ==
    << "Maintain regular exercise routine",
       "Schedule annual neurological check-up" >>

\* where an item belongs: 0 for a confidence item, k for the item of the
\* k-th modality of order, 4 for anything else
Rank(order, item) ==
    IF item \in ConfidenceItemSet THEN 0
    ELSE IF \E k \in 1..3 : item = ModalityItem[order[k]]
    THEN CHOOSE k \in 1..3 : item = ModalityItem[order[k]]
    ELSE 4

\* recs is confidence items, modality items in the given order, general items
OrderedAs(order, recs) ==
    LET n == Len(recs)
    IN  /\ n >= 3
        /\ SubSeq(recs, n - 1, n) = GeneralTail
        /\ {i \in 1..n : Rank(order, recs[i]) = 4} = {n - 1, n}
        /\ Rank(order, recs[1]) = 0
        /\ \A i, j \in 1..n : i < j => Rank(order, recs[i]) <= Rank(order, recs[j])

\* C22 as the spec states it: the recommendations are the confidence-tier
\* items, then the modality items in the order voice, datscan, spiral, then
\* the two general-health items as the last two entries, for every verdict.
C22_OrderVoiceDatscanSpiral ==
    pc # "start" =>
      OrderedAs(<<"voice", "datscan", "spiral">>, narrative.recommendations)

\* C22, amended: the recommendations are the confidence-tier items, then
\* the modality items in the order datscan, voice, spiral, then the two
\* general-health items as the last two entries, for every verdict.
C22_OrderDatscanVoiceSpiral ==
    pc # "start" =>
      OrderedAs(<<"datscan", "voice", "spiral">>, narrative.recommendations)

C22_Witness ==
    /\ pc = "fused"
    /\ Len(given) = 3
    /\ fusion_result.prediction = 1
    /\ Len(narrative.recommendations) = 8
    /\ narrative.recommendations[4] = ModalityItem.datscan
    /\ narrative.recommendations[5] = ModalityItem.voice
    /\ narrative.recommendations[6] = ModalityItem.spiral
    /\ SubSeq(narrative.recommendations, 7, 8) = GeneralTail

\* how often item occurs in recs
Occurrences(recs, item) == Cardinality({i \in 1..Len(recs) : recs[i] = item})

\* C23 as the spec states it: for every verdict (prediction 0 or 1) the
\* recommendations hold exactly one modality item for each contributing
\* modality and none for a modality that did not contribute.
C23_OneItemPerModality ==
    pc # "start" =>
      \A m \in DOMAIN ModalityItem :
         Occurrences(narrative.recommendations, ModalityItem[m])
            = (IF m \in Accumulated(individual_results) THEN 1 ELSE 0)

\* C23, amended: for every Parkinson's verdict (prediction 1) the
\* recommendations hold exactly one modality item for each contributing
\* modality and none for a modality that did not contribute; for a Healthy
\* verdict (prediction 0) they hold no modality item.
C23_OneItemPerModalityOfParkinsons ==
    pc # "start" =>
      \A m \in DOMAIN ModalityItem :
         Occurrences(narrative.recommendations, ModalityItem[m])
            = (IF /\ fusion_result.prediction = 1
                  /\ m \in Accumulated(individual_results)
               THEN 1 ELSE 0)

C23_Witness ==
    /\ pc = "raised"
    /\ Len(given) = 2
    /\ prev_fusion.prediction = 0
    /\ prev_fusion.prediction_label = "Healthy"
    /\ Len(prev_narrative.recommendations) = 4
    /\ fusion_result.prediction = 1
    /\ Len(narrative.recommendations) = 7

\* C24: on every model loader, predict called before any load_model call has
\* succeeded ends in the model-not-loaded error and gives no result; a
\* prediction result is produced only after a load_model call has succeeded
\* on that loader.
C24_PredictNeedsLoadedModel ==
    /\ (last_loaded = 0 /\ predict_outcome # "none")
          => predict_outcome = "ModelNotLoaded"
    /\ predict_outcome = "result" => (last_loaded > 0 /\ loader.model_loaded)

C24_Witness ==
    /\ load_calls > 0
    /\ load_returned = "False"
    /\ last_loaded = 0
    /\ predict_outcome = "ModelNotLoaded"

NonFinite == {"nan", "inf", "-inf"}

C27_LoadIsAllOrNothing ==
    /\ loader.model_loaded =>
          /\ loader.model > 0
          /\ loader.model = last_loaded
          /\ loader.scaler = last_loaded
          /\ loader.feature_names.by = last_loaded
    /\ (load_returned = "False" /\ loader_before.model_loaded)
          => loader = loader_before
    /\ load_returned = "True" => loader.feature_names.usable

\* C25: the modalities are gated one by one on their models: when the voice
\* model failed to load while the DATScan and spiral models (which their
\* services always set up) are there, the service does not refuse
\* multimodal analysis; a request is answered 200 with the verdict of the
\* modalities whose models are loaded and the voice modality in errors.
C25_DegradesNotRefuses ==
    /\ pc # "exited"
    /\ (pc = "done" /\ voice_analyzer = "None" /\ Requested("voice")) =>
          /\ status_code = 200
          /\ \E i \in 1..Len(errors) : errors[i][1] = ErrorOf.voice
          /\ \A m \in {"datscan", "spiral"} :
                (Requested(m) /\ m \notin failing) =>
                    \E i \in 1..Len(models_used) : models_used[i] = m

\* the probability_pd, in tenths, of the results with positive confidence
PositivePds == {given[i].pd : i \in {j \in 1..Len(given) : given[j].conf > 0}}

MinPd == CHOOSE p \in PositivePds : \A q \in PositivePds : p <= q

MaxPd == CHOOSE p \in PositivePds : \A q \in PositivePds : p >= q

Unanimous ==
    /\ (\A p \in PositivePds : p > 5) => fusion_result.prediction = 1
    /\ (\A p \in PositivePds : p <= 5) => fusion_result.prediction = 0

\* C28 as stated: when the total effective weight is > 0 the fused
\* probability_pd lies between the least and the greatest probability_pd of
\* the results with positive confidence; so results that are all above 0.5
\* give prediction 1 and results that are all at or below 0.5 give 0.
C28_BetweenMinAndMax ==
    (Called /\ PositivePds # {}) =>
      /\ FLe(Tenth(MinPd), fusion_result.probability_pd)
      /\ FLe(fusion_result.probability_pd, Tenth(MaxPd))
      /\ Unanimous

\* C28 amended: when the total effective weight is > 0 the fused
\* probability_pd lies between the least and the greatest probability_pd of
\* the results with positive confidence to within 1e-9; results that are
\* all above 0.5 by more than 1e-9 give prediction 1 and results that are
\* all at or below 0.5 give prediction 0.
C28_BetweenMinAndMaxRounded ==
    (Called /\ PositivePds # {}) =>
      /\ Versus(fusion_result.probability_pd, MinPd, 10, -1) >= 0
      /\ Versus(fusion_result.probability_pd, MaxPd, 10, 1) <= 0
      /\ Unanimous

C28_Witness ==
    /\ pc = "fused"
    /\ Len(given) = 2
    /\ PositivePds = {4}
    /\ FGt(fusion_result.probability_pd, Tenth(4))
    /\ Close(fusion_result.probability_pd, 4, 10)
    /\ fusion_result.prediction = 0

\* how often a modality is in models_used, in individual_results, in errors
UsedCount(m) == Cardinality({i \in 1..Len(models_used) : models_used[i] = m})

ResultCount(m) ==
    Cardinality({i \in 1..Len(individual_results) :
                    individual_results[i].model_type = m})

ErrorCount(m) == Cardinality({i \in 1..Len(errors) : errors[i][1] = ErrorOf[m]})

\* C29: when analyze_multimodal returns, every requested modality is either
\* in models_used with one entry of individual_results or in errors with
\* exactly one message, never both; an unrequested modality is in neither;
\* so len(models_used) + len(errors) is the number of requested modalities,
\* and errors is null exactly when no requested modality failed.
C29_RequestedPartition ==
    pc = "done" =>
      /\ \A m \in DOMAIN InputKey :
            IF Requested(m)
            THEN \/ UsedCount(m) = 1 /\ ResultCount(m) = 1 /\ ErrorCount(m) = 0
                 \/ UsedCount(m) = 0 /\ ResultCount(m) = 0 /\ ErrorCount(m) = 1
            ELSE UsedCount(m) = 0 /\ ResultCount(m) = 0 /\ ErrorCount(m) = 0
      /\ Len(response.models_used) + Len(errors) = Cardinality(analysis_data)
      /\ response.errors = "None" <=>
            ~ \E m \in DOMAIN InputKey : Requested(m) /\ ErrorCount(m) > 0
      /\ response.errors # "None" => response.errors = errors

C29_Witness ==
    /\ pc = "done"
    /\ analysis_data = {InputKey.datscan, InputKey.spiral}
    /\ response.models_used = <<"spiral">>
    /\ ResultCount("spiral") = 1
    /\ ErrorCount("datscan") = 1
    /\ Len(response.errors) = 1

\* some result has a positive confidence
HasPositiveWeight(g) == \E i \in 1..Len(g) : g[i].conf > 0

\* C30: a result whose confidence is 0 has no influence on the fused
\* probability_pd or prediction: the fusion with it and the fusion without
\* it return the same two values; it is counted in the denominator of the
\* confidence mean, so adding it to results of positive total weight lowers
\* the fused confidence.
C30_ZeroConfidenceResult ==
    pc = "zeroed" =>
      /\ fusion_result.probability_pd = prev_fusion.probability_pd
      /\ fusion_result.prediction = prev_fusion.prediction
      /\ HasPositiveWeight(prev_given) =>
            /\ FGt(prev_fusion.confidence, fusion_result.confidence)
            /\ Close(fusion_result.confidence, ConfTotal(prev_given, 1),
                     10 * (Len(prev_given) + 1))

C30_Witness ==
    /\ pc = "zeroed"
    /\ prev_given = ScenarioA
    /\ Len(given) = 3
    /\ given[2].conf = 0
    /\ fusion_result.probability_pd = prev_fusion.probability_pd
    /\ Close(prev_fusion.confidence, 7, 10)
    /\ Close(fusion_result.confidence, 14, 30)

====
